---- MODULE Spec2Model ----
(***************************************************************************)
(* Domain checker: the scheduled check-and-notify pass                     *)
(* (GET /api/check-domains), the Domainsduck availability client and the   *)
(* add-domain form's name normalisation.                                   *)
(*                                                                         *)
(* Strings the code inspects character by character (the form input) are   *)
(* sequences of one-character strings.  Optional values (null, undefined)  *)
(* are sequences of length 0 or 1: <<>> is null, <<v>> is the value v.     *)
(***************************************************************************)
EXTENDS Integers, Sequences, FiniteSets, TLC

VARIABLES
    env,              \* process.env: required variable -> value ("" is unset)
    oracle,           \* the responses the Domainsduck service may give, per domain id
    domains,          \* table public.domains: id -> row
    notifications,    \* table public.email_notifications, in insertion order
    now,              \* Date.now(), in ms
    passesLeft,       \* scheduled invocations still to come
    pc,               \* position of the GET handler
    authHeader,       \* the request's Authorization header (optional)
    method,           \* the request's HTTP method
    startTime,        \* GET: startTime
    loaded,           \* GET: domains (the rows the query returned, in order)
    idx,              \* GET: next element of domains.map to start
    task,             \* GET: checkPromises, one record per loaded domain id
    results,          \* GET: results
    availableDomains, \* GET: availableDomains (ids)
    response,         \* the HTTP response (optional)
    prev,             \* the task records of the previous invocation
    calls,            \* the outbound calls the current invocation has made so far
    rawInput,         \* AddDomainForm: the text handed to normalizeDomain
    normOnce,         \* normalizeDomain(rawInput) (optional)
    normTwice,        \* normalizeDomain(normalizeDomain(rawInput)) (optional)
    forms,            \* AddDomainForm: one record per open form (browser session)
    nextId,           \* the next id the store hands out (stands for gen_random_uuid())
    apiResp,          \* availability client: the HTTP exchange of one checkDomain call
    checkResult,      \* availability client: what checkDomainAvailability returned (optional)
    requests,         \* RateLimiter.requests: the timestamps it holds, in push order
    admitted,         \* the calls the limiter let through: time -> number of calls
    denied,           \* the times at which the limiter refused a call
    lastCall,         \* what the latest checkDomainWithRateLimit call did
    runs              \* two invocations of GET in flight together: one record each

passVars == <<env, oracle, domains, notifications, now, passesLeft, pc, authHeader, method,
              startTime, loaded, idx, task, results, availableDomains, response, prev,
              calls>>
formVars == <<rawInput, normOnce, normTwice, forms, nextId>>
clientVars == <<apiResp, checkResult, requests, admitted, denied, lastCall>>
overlapVars == <<runs>>
vars == <<passVars, formVars, clientVars, overlapVars>>

(***************************************************************************)
(* Bounds of the model.                                                    *)
(***************************************************************************)
MaxLen == 4          \* longest enumerated form input
MaxTicks == 2        \* clock advances per run
TickMs == 9000       \* size of one clock advance
MaxPasses == 2       \* consecutive invocations in the two-pass runs
MaxForms == 2        \* add-domain forms open at the same time
MaxRateTicks == 2    \* clock advances in the runs of the rate limiter
RateTickMs == 1800000 \* size of one of these advances: half the limiter's window

(***************************************************************************)
(* Generic helpers.                                                        *)
(***************************************************************************)
None == <<>>
Some(v) == <<v>>
IsSome(o) == Len(o) = 1
Get(o) == o[1]

Range(s) == {s[i] : i \in 1..Len(s)}

RECURSIVE SeqsUpTo(_, _)
SeqsUpTo(S, n) ==
    IF n = 0 THEN {<<>>}
    ELSE LET shorter == SeqsUpTo(S, n - 1)
         IN  shorter \cup {Append(s, c) : s \in {t \in shorter : Len(t) = n - 1}, c \in S}

HasPrefix(s, p) == Len(s) >= Len(p) /\ SubSeq(s, 1, Len(p)) = p
DropPrefix(s, p) == SubSeq(s, Len(p) + 1, Len(s))

(***************************************************************************)
(* AddDomainForm.normalizeDomain                                           *)
(***************************************************************************)
UpperChars == <<"A", "B", "C", "D", "E", "F", "G", "H", "I", "J", "K", "L", "M",
                "N", "O", "P", "Q", "R", "S", "T", "U", "V", "W", "X", "Y", "Z">>
LowerChars == <<"a", "b", "c", "d", "e", "f", "g", "h", "i", "j", "k", "l", "m",
                "n", "o", "p", "q", "r", "s", "t", "u", "v", "w", "x", "y", "z">>
WhiteSpace == {" ", "\t", "\n"}

\* String.prototype.toLowerCase, one character
LowerChar(c) ==
    IF \E i \in 1..Len(UpperChars) : UpperChars[i] = c
    THEN LowerChars[CHOOSE i \in 1..Len(UpperChars) : UpperChars[i] = c]
    ELSE c

toLowerCase(s) == [i \in 1..Len(s) |-> LowerChar(s[i])]

\* String.prototype.trim
RECURSIVE trimStart(_)
trimStart(s) ==
    IF Len(s) > 0 /\ s[1] \in WhiteSpace THEN trimStart(Tail(s)) ELSE s

RECURSIVE trimEnd(_)
trimEnd(s) ==
    IF Len(s) > 0 /\ s[Len(s)] \in WhiteSpace THEN trimEnd(SubSeq(s, 1, Len(s) - 1)) ELSE s

trim(s) == trimEnd(trimStart(s))

HttpPrefix == <<"h", "t", "t", "p", ":", "/", "/">>
HttpsPrefix == <<"h", "t", "t", "p", "s", ":", "/", "/">>
WwwPrefix == <<"w", "w", "w", ".">>

\* normalized.replace(/^https?:\/\//, '')
StripScheme(s) ==
    IF HasPrefix(s, HttpPrefix) THEN DropPrefix(s, HttpPrefix)
    ELSE IF HasPrefix(s, HttpsPrefix) THEN DropPrefix(s, HttpsPrefix)
    ELSE s

\* normalized.replace(/^www\./, '')
StripWww(s) == IF HasPrefix(s, WwwPrefix) THEN DropPrefix(s, WwwPrefix) ELSE s

\* normalized.replace(/\/$/, '')
StripTrailingSlash(s) ==
    IF Len(s) > 0 /\ s[Len(s)] = "/" THEN SubSeq(s, 1, Len(s) - 1) ELSE s

normalizeDomain(input) ==
    StripTrailingSlash(StripWww(StripScheme(toLowerCase(trim(input)))))

(***************************************************************************)
(* lib/domainsduck.ts: the availability client                             *)
(***************************************************************************)
TimeoutMs == 8000

Returned(v) == [threw |-> FALSE, value |-> v, message |-> "none"]
Threw(m) == [threw |-> TRUE, value |-> FALSE, message |-> m]

\* availability?.toString().toLowerCase() on the codes the model feeds in
LowerCode(code) ==
    CASE code = "TRUE" -> "true"
      [] code = "FALSE" -> "false"
      [] code = "Premium Domain" -> "premium domain"
      [] OTHER -> code

\* availability === 'true' || availability === 'premium domain'
\* (an absent availability field is undefined, which equals neither)
IsAvailableCode(availability) ==
    /\ IsSome(availability)
    /\ LowerCode(Get(availability)) \in {"true", "premium domain"}

\* One exchange with the service: resp.kind says how the fetch ended.
checkDomain(e, domain, resp) ==
    IF e["DOMAINSDUCK_API_KEY"] = ""
    THEN Threw("DOMAINSDUCK_API_KEY environment variable is not set")
    ELSE IF resp.kind = "timeout" THEN Threw("Domain check timeout")
    ELSE IF resp.kind = "network_error" THEN Threw("fetch failed")
    ELSE IF resp.kind = "http_error" THEN Threw("API request failed")
    ELSE IF resp.kind = "bad_json" THEN Threw("Unexpected token in JSON")
    ELSE Returned(IsAvailableCode(resp.availability))

\* A variant whose catch branch reports the failure as status unknown.
checkDomainAvailabilityUnknownOnFailure(e, domain, resp) ==
    LET r == checkDomain(e, domain, resp)
    IN  IF ~r.threw
        THEN [domain |-> domain, available |-> r.value,
              status |-> IF r.value THEN "available" ELSE "registered",
              error |-> None]
        ELSE [domain |-> domain, available |-> FALSE, status |-> "unknown",
              error |-> Some(r.message)]

checkDomainAvailability(e, domain, resp) ==
    LET r == checkDomain(e, domain, resp)
    IN  IF ~r.threw
        THEN [domain |-> domain, available |-> r.value,
              status |-> IF r.value THEN "available" ELSE "registered",
              error |-> None]
        ELSE [domain |-> domain, available |-> FALSE, status |-> "registered",
              error |-> Some(r.message)]

Json(code) == [kind |-> "json", availability |-> Some(code)]
JsonNoField == [kind |-> "json", availability |-> None]
Failure(k) == [kind |-> k, availability |-> None]

DocumentedCodes == {"true", "false", "premium domain", "reserved", "bad tld"}
OtherCodes == {"TRUE", "FALSE", "Premium Domain", "maybe", "error", ""}
FailureKinds == {"timeout", "network_error", "http_error", "bad_json"}

\* every exchange the client model is run on
AllResponses ==
    {Json(c) : c \in DocumentedCodes \cup OtherCodes}
        \cup {JsonNoField} \cup {Failure(k) : k \in FailureKinds}

\* the exchanges the pass is run on: one per way the pass can go
PassResponses == {Json("true"), Json("false"), Failure("timeout")}

(***************************************************************************)
(* app/api/check-domains/route.ts: GET                                     *)
(***************************************************************************)
SoftDeadlineMs == 9000

DomainIds == {1, 2, 3}
DomainName(d) == CASE d = 1 -> "one.com" [] d = 2 -> "two.com" [] OTHER -> "three.com"

RequiredEnvVars == <<"CRON_SECRET", "NEXT_PUBLIC_SUPABASE_URL",
                     "NEXT_PUBLIC_SUPABASE_ANON_KEY", "DOMAINSDUCK_API_KEY",
                     "RESEND_API_KEY", "RESEND_FROM_EMAIL", "NOTIFICATION_EMAIL">>
EnvValues == {"", "set"}
EnvAllSet == [k \in Range(RequiredEnvVars) |-> "set"]

\* Object.entries(requiredEnvVars).filter(([, value]) => !value).map(([key]) => key)
MissingVars(e) == SelectSeq(RequiredEnvVars, LAMBDA k : e[k] = "")

\* lib/resend.ts is evaluated when the route module is imported:
\* `export const resend = getResendClient()` calls validateResendConfig, which throws
\* when one of its three variables is unset, so the route module fails to load.
ResendModuleLoads(e) ==
    /\ e["RESEND_API_KEY"] # ""
    /\ e["RESEND_FROM_EMAIL"] # ""
    /\ e["NOTIFICATION_EMAIL"] # ""

\* const expectedAuth = `Bearer ${process.env.CRON_SECRET}`
ExpectedAuth(e) == <<"Bearer", e["CRON_SECRET"]>>

\* Variant: the test without `!authHeader ||`, as if a missing header were a match.
UnauthorizedIfPresent(e, h) == IsSome(h) /\ Get(h) # <<>> /\ Get(h) # ExpectedAuth(e)

\* !authHeader || authHeader !== expectedAuth   (h is optional; Some(<<>>) is "")
Unauthorized(e, h) == ~IsSome(h) \/ Get(h) = <<>> \/ Get(h) # ExpectedAuth(e)

AuthHeaders == {None, Some(<<>>), Some(<<"Bearer", "set">>), Some(<<"Bearer", "guess">>)}

\* The HTTP responses.  kind names the branch that produced the response.
Reply(code, k, ok) ==
    [status |-> code, kind |-> k, success |-> ok, missingVars |-> None,
     checked |-> 0, available |-> 0, domains |-> <<>>]
ModuleErrorResponse == Reply(500, "module evaluation failed", FALSE)
ConfigErrorResponse(e) ==
    [Reply(500, "Configuration error", FALSE) EXCEPT !.missingVars = Some(MissingVars(e))]
UnauthorizedResponse == Reply(401, "Unauthorized", FALSE)
DatabaseErrorResponse == Reply(500, "Database error", FALSE)
InternalErrorResponse == Reply(500, "Internal server error", FALSE)
EmptyResponse == Reply(200, "No active domains to check", TRUE)
\* POST: { error: 'Method not allowed. Use GET instead.' }, status 405
MethodNotAllowedResponse == Reply(405, "Method not allowed", FALSE)
\* Variant: HEAD refused like POST.
HealthAsNotAllowed == MethodNotAllowedResponse
\* HEAD: new NextResponse(null, { status: 200 })
HealthResponse == Reply(200, "health", FALSE)
\* Variant: checked counts the rows loaded rather than the entries recorded.
SummaryCountingLoaded(res, avail) ==
    [Reply(200, "summary", TRUE) EXCEPT
        !.checked = Len(loaded), !.available = Len(avail), !.domains = res]

SummaryResponse(res, avail) ==
    [Reply(200, "summary", TRUE) EXCEPT
        !.checked = Len(res), !.available = Len(avail), !.domains = res]

\* .eq('active', true).order('last_checked', { ascending: true })
\* PostgREST sends last_checked.asc; PostgreSQL then sorts NULLs last and leaves
\* the order of equal keys open.
ActiveIds(rows) == {d \in DOMAIN rows : rows[d].active}

Before(a, b) ==
    \/ IsSome(a) /\ ~IsSome(b)
    \/ IsSome(a) /\ IsSome(b) /\ Get(a) < Get(b)

Snapshot(rows, d) ==
    [id |-> d, name |-> rows[d].name, status |-> rows[d].status,
     active |-> rows[d].active, last_checked |-> rows[d].last_checked]

LoadOrders(rows) ==
    LET ids == ActiveIds(rows)
        n == Cardinality(ids)
        perms == {f \in [1..n -> ids] : \A i, j \in 1..n : i # j => f[i] # f[j]}
        sorted == {f \in perms : \A i, j \in 1..n :
                      i < j => ~Before(rows[f[j]].last_checked, rows[f[i]].last_checked)}
    IN  {[i \in 1..n |-> Snapshot(rows, f[i])] : f \in sorted}

LoadedRow(d) == loaded[CHOOSE i \in 1..Len(loaded) : loaded[i].id = d]

\* Variant: the budget taken for seconds and scaled to ms once more.
DeadlineExceededScaled(elapsed) == elapsed > SoftDeadlineMs * 1000

\* Date.now() - startTime > 9000
DeadlineExceeded(elapsed) == elapsed > SoftDeadlineMs

\* const newStatus = result.available ? 'available' : 'registered'
NewStatus(result) == IF result.available THEN "available" ELSE "registered"

\* Variant: only a change to available counted as a change.
StatusChangedToAvailable(previous, newStatus) ==
    previous # newStatus /\ newStatus = "available"

\* const statusChanged = domain.status !== newStatus
StatusChanged(previous, newStatus) == previous # newStatus

\* Variant: notify whenever the domain is available, changed or not.
NotifyWhenAvailable(result, changed) == result.available

\* Variant: notify on every change of status, whatever the new status.
NotifyOnAnyChange(result, changed) == changed

\* if (result.available) { ...; if (statusChanged) sendAvailabilityNotification(...) }
ShouldNotify(result, changed) == result.available /\ changed

\* Variant: the update dropped, the notification going out on the computed status alone.
UpdateSkipped(rows, d, newStatus, t) == rows

\* Variant: the update without the last_checked column.
UpdateStatusOnly(rows, d, newStatus, t) ==
    IF d \in DOMAIN rows THEN [rows EXCEPT ![d].status = newStatus] ELSE rows

\* Variant: the update without the status column.
UpdateLastCheckedOnly(rows, d, newStatus, t) ==
    IF d \in DOMAIN rows THEN [rows EXCEPT ![d].last_checked = Some(t)] ELSE rows

\* Variant: the write as an upsert of the row as it was loaded, with the new status.
UpdateUpsertingLoaded(rows, d, newStatus, t) ==
    LET row == LoadedRow(d)
    IN  [dd \in DOMAIN rows \cup {d} |->
            IF dd = d
            THEN [name |-> row.name, status |-> newStatus, active |-> TRUE,
                  last_checked |-> Some(t)]
            ELSE rows[dd]]

\* .update({ status: newStatus, last_checked: new Date().toISOString() }).eq('id', domain.id)
UpdateDomain(rows, d, newStatus, t) ==
    IF d \in DOMAIN rows
    THEN [rows EXCEPT ![d].status = newStatus, ![d].last_checked = Some(t)]
    ELSE rows

\* Variant: the entry reporting the loaded status, unchanged.
ResultEntryAsLoaded(row, newStatus, changed) ==
    [domain |-> row.name, status |-> row.status, changed |-> FALSE,
     previousStatus |-> None, error |-> None]

\* results.push({ domain, status, changed, previousStatus: statusChanged ? domain.status : undefined })
ResultEntry(row, newStatus, changed) ==
    [domain |-> row.name, status |-> newStatus, changed |-> changed,
     previousStatus |-> IF changed THEN Some(row.status) ELSE None, error |-> None]

\* catch: results.push({ domain, status: 'registered', changed: false, error })
CatchEntry(row, message) ==
    [domain |-> row.name, status |-> "registered", changed |-> FALSE,
     previousStatus |-> None, error |-> Some(message)]

\* sendAvailabilityNotification: what is inserted into email_notifications, if anything
NotificationRows(d, send, ins) ==
    IF send = "throw" \/ ins # "ok" THEN <<>>
    ELSE IF send = "error"
    THEN <<[domain_id |-> d, status |-> "failed", error_message |-> Some("send failed")]>>
    ELSE <<[domain_id |-> d, status |-> "sent", error_message |-> None]>>

UpdateOutcomes == {"ok", "error", "throw"}
SendOutcomes == {"sent", "error", "throw"}
InsertOutcomes == {"ok", "error"}
LoadOutcomes == {"ok", "error", "throw"}

NewTask ==
    [st |-> "pending", elapsed |-> 0, resp |-> None, available |-> FALSE,
     newStatus |-> "none", changed |-> FALSE, upd |-> "none",
     send |-> "none", ins |-> "none"]

NoTasks == [d \in {} |-> NewTask]

\* Outbound calls: the query for the active domains (a count) and, per kind, the ids of
\* the domains the call was made for.
NoCalls == [load |-> 0, oracle |-> {}, update |-> {}, notify |-> {}, send |-> {}, insert |-> {}]

\* Two requests handled at the same time (a manual trigger during a scheduled run):
\* each invocation of GET has its own startTime, domains, results and availableDomains,
\* and its own callbacks.
Invocations == {1, 2}

\* The callback of one domain in one invocation.  before is the status the row had
\* in the store when this callback's update was applied.
NewRunTask ==
    [st |-> "pending", available |-> FALSE, newStatus |-> "none", changed |-> FALSE,
     upd |-> "none", before |-> "none", send |-> "none", ins |-> "none"]

NewRun ==
    [pc |-> "idle", startTime |-> 0, loaded |-> <<>>, idx |-> 1,
     task |-> [d \in {} |-> NewRunTask], results |-> <<>>, availableDomains |-> <<>>,
     notify |-> {}, response |-> None]

NoRuns == [r \in Invocations |-> NewRun]

\* Steps 1 and 2 of GET, after the route module has been loaded: the response that
\* ends the request at once, if any.
Admission(e, h) ==
    IF ~ResendModuleLoads(e) THEN Some(ModuleErrorResponse)
    ELSE IF MissingVars(e) # <<>> THEN Some(ConfigErrorResponse(e))
    ELSE IF Unauthorized(e, h) THEN Some(UnauthorizedResponse)
    ELSE None

\* A request arrives: startTime, environment validation, authorization.
Begin(h) ==
    /\ pc \in {"idle", "done"}
    /\ passesLeft > 0
    /\ passesLeft' = passesLeft - 1
    /\ authHeader' = h
    /\ method' = "GET"
    /\ startTime' = now
    /\ prev' = IF method = "GET" THEN task ELSE prev
    /\ loaded' = <<>>
    /\ idx' = 1
    /\ task' = NoTasks
    /\ results' = <<>>
    /\ availableDomains' = <<>>
    /\ calls' = NoCalls
    /\ response' = Admission(env, h)
    /\ pc' = IF IsSome(Admission(env, h)) THEN "done" ELSE "loading"
    /\ UNCHANGED <<env, oracle, domains, notifications, now, formVars, clientVars, overlapVars>>

\* The methods other than GET the route module exports a handler for.
OtherMethods == {"POST", "HEAD"}

\* A POST or HEAD request arrives.  Neither handler reads the request, the environment
\* or the store; the route module has to load first, as for GET.
OtherMethod(m, h) ==
    /\ pc \in {"idle", "done"}
    /\ passesLeft > 0
    /\ passesLeft' = passesLeft - 1
    /\ authHeader' = h
    /\ method' = m
    /\ startTime' = now
    /\ prev' = IF method = "GET" THEN task ELSE prev
    /\ loaded' = <<>>
    /\ idx' = 1
    /\ task' = NoTasks
    /\ results' = <<>>
    /\ availableDomains' = <<>>
    /\ calls' = NoCalls
    /\ response' = IF ~ResendModuleLoads(env) THEN Some(ModuleErrorResponse)
                   ELSE IF m = "POST" THEN Some(MethodNotAllowedResponse)
                   ELSE Some(HealthResponse)
    /\ pc' = "done"
    /\ UNCHANGED <<env, oracle, domains, notifications, now, formVars, clientVars, overlapVars>>

\* createServerSupabaseClient and the query for the active domains.
Load(o, rows) ==
    /\ pc = "loading"
    /\ calls' = [calls EXCEPT !.load = @ + 1]
    /\ IF o = "throw" THEN
            /\ response' = Some(InternalErrorResponse)
            /\ pc' = "done"
            /\ UNCHANGED <<loaded, task>>
       ELSE IF o = "error" THEN
            /\ response' = Some(DatabaseErrorResponse)
            /\ pc' = "done"
            /\ UNCHANGED <<loaded, task>>
       ELSE IF Len(rows) = 0 THEN
            /\ response' = Some(EmptyResponse)
            /\ pc' = "done"
            /\ UNCHANGED <<loaded, task>>
       ELSE
            /\ loaded' = rows
            /\ task' = [d \in {rows[i].id : i \in 1..Len(rows)} |-> NewTask]
            /\ pc' = "dispatching"
            /\ UNCHANGED response
    /\ UNCHANGED <<env, oracle, domains, notifications, now, passesLeft, authHeader, method,
                   startTime, idx, results, availableDomains, prev, formVars, clientVars, overlapVars>>

\* domains.map starts the callback of the next domain; it runs to its first await:
\* the deadline test, then the request to the service.
Dispatch ==
    /\ pc = "dispatching"
    /\ LET d == loaded[idx].id
           elapsed == now - startTime
       IN  /\ task' = [task EXCEPT ![d] =
                    [@ EXCEPT !.st = IF DeadlineExceeded(elapsed) THEN "skipped"
                                     ELSE "checking",
                              !.elapsed = elapsed]]
           /\ calls' = IF DeadlineExceeded(elapsed) THEN calls
                       ELSE [calls EXCEPT !.oracle = @ \cup {d}]
    /\ idx' = idx + 1
    /\ pc' = IF idx = Len(loaded) THEN "awaiting" ELSE "dispatching"
    /\ UNCHANGED <<env, oracle, domains, notifications, now, passesLeft, authHeader, method,
                   startTime, loaded, results, availableDomains, response, prev,
                   formVars, clientVars, overlapVars>>

\* checkDomainAvailability returns for domain d; the callback computes newStatus and
\* statusChanged and issues the update, which the store applies (u = "ok"), rejects
\* (u = "error") or which throws (u = "throw").
OracleReturn(d, r, u) ==
    /\ pc = "awaiting"
    /\ d \in DOMAIN task
    /\ task[d].st = "checking"
    /\ LET result == checkDomainAvailability(env, LoadedRow(d).name, r)
           newStatus == NewStatus(result)
           changed == StatusChanged(LoadedRow(d).status, newStatus)
       IN  /\ task' = [task EXCEPT ![d] =
                    [@ EXCEPT !.st = "updating", !.resp = Some(r),
                              !.available = result.available, !.newStatus = newStatus,
                              !.changed = changed, !.upd = u]]
           /\ domains' = IF u = "ok" THEN UpdateDomain(domains, d, newStatus, now)
                         ELSE domains
           /\ calls' = [calls EXCEPT !.update = @ \cup {d}]
    /\ UNCHANGED <<env, oracle, notifications, now, passesLeft, pc, authHeader, method, startTime,
                   loaded, idx, results, availableDomains, response, prev,
                   formVars, clientVars, overlapVars>>

\* The update has settled: the result entry, availableDomains, and the call of
\* sendAvailabilityNotification up to its await of resend.emails.send.
UpdateReturn(d) ==
    /\ pc = "awaiting"
    /\ d \in DOMAIN task
    /\ task[d].st = "updating"
    /\ LET t == task[d]
           row == LoadedRow(d)
           result == [available |-> t.available]
           notify == ShouldNotify(result, t.changed)
           canSend == env["NOTIFICATION_EMAIL"] # "" /\ env["RESEND_FROM_EMAIL"] # ""
       IN  IF t.upd = "throw" THEN
                /\ results' = Append(results, CatchEntry(row, "update failed"))
                /\ task' = [task EXCEPT ![d].st = "settled"]
                /\ UNCHANGED <<availableDomains, calls>>
           ELSE
                /\ results' = Append(results, ResultEntry(row, t.newStatus, t.changed))
                /\ availableDomains' = IF t.available THEN Append(availableDomains, d)
                                       ELSE availableDomains
                /\ task' = [task EXCEPT ![d].st =
                                IF notify /\ canSend THEN "sending" ELSE "settled"]
                /\ calls' = [calls EXCEPT
                                !.notify = IF notify THEN @ \cup {d} ELSE @,
                                !.send = IF notify /\ canSend THEN @ \cup {d} ELSE @]
    /\ UNCHANGED <<env, oracle, domains, notifications, now, passesLeft, pc, authHeader, method,
                   startTime, loaded, idx, response, prev, formVars, clientVars, overlapVars>>

\* Variant: a send that did not succeed puts the loaded status back into the row.
SendReturnRollingBack(d, s, i) ==
    /\ pc = "awaiting"
    /\ d \in DOMAIN task
    /\ task[d].st = "sending"
    /\ LET ins == IF s = "throw" THEN "none"
                  ELSE IF d \notin DOMAIN domains THEN "error"
                  ELSE i
       IN  /\ notifications' = notifications \o NotificationRows(d, s, ins)
           /\ task' = [task EXCEPT ![d] =
                    [@ EXCEPT !.st = "settled", !.send = s, !.ins = ins]]
           /\ calls' = IF s = "throw" THEN calls ELSE [calls EXCEPT !.insert = @ \cup {d}]
    /\ domains' = IF s = "sent" THEN domains
                  ELSE [domains EXCEPT ![d].status = LoadedRow(d).status]
    /\ UNCHANGED <<env, oracle, now, passesLeft, pc, authHeader, method, startTime,
                   loaded, idx, results, availableDomains, response, prev,
                   formVars, clientVars, overlapVars>>

\* resend.emails.send has ended (sent, an error result, or a throw) and the row for
\* email_notifications has been inserted (or the insert was rejected, as it is when
\* the domain has been deleted meanwhile: domain_id REFERENCES domains(id)).
SendReturn(d, s, i) ==
    /\ pc = "awaiting"
    /\ d \in DOMAIN task
    /\ task[d].st = "sending"
    /\ LET ins == IF s = "throw" THEN "none"
                  ELSE IF d \notin DOMAIN domains THEN "error"
                  ELSE i
       IN  /\ notifications' = notifications \o NotificationRows(d, s, ins)
           /\ task' = [task EXCEPT ![d] =
                    [@ EXCEPT !.st = "settled", !.send = s, !.ins = ins]]
           /\ calls' = IF s = "throw" THEN calls ELSE [calls EXCEPT !.insert = @ \cup {d}]
    /\ UNCHANGED <<env, oracle, domains, now, passesLeft, pc, authHeader, method, startTime,
                   loaded, idx, results, availableDomains, response, prev,
                   formVars, clientVars, overlapVars>>

\* Variant: the summary built without awaiting Promise.all.
FinishWithoutWaiting ==
    /\ pc = "awaiting"
    /\ response' = Some(SummaryResponse(results, availableDomains))
    /\ pc' = "done"
    /\ UNCHANGED <<env, oracle, domains, notifications, now, passesLeft, authHeader, method,
                   startTime, loaded, idx, task, results, availableDomains, prev, calls,
                   formVars, clientVars, overlapVars>>

\* Variant: the callbacks without their try/catch, so that Promise.all rejects when an
\* update threw and the outer catch answers.
FinishRejecting ==
    /\ pc = "awaiting"
    /\ \A d \in DOMAIN task : task[d].st \in {"settled", "skipped"}
    /\ response' = IF \E d \in DOMAIN task : task[d].upd = "throw"
                   THEN Some(InternalErrorResponse)
                   ELSE Some(SummaryResponse(results, availableDomains))
    /\ pc' = "done"
    /\ UNCHANGED <<env, oracle, domains, notifications, now, passesLeft, authHeader, method,
                   startTime, loaded, idx, task, results, availableDomains, prev, calls,
                   formVars, clientVars, overlapVars>>

\* await Promise.all(checkPromises), then the summary.
Finish ==
    /\ pc = "awaiting"
    /\ \A d \in DOMAIN task : task[d].st \in {"settled", "skipped"}
    /\ response' = Some(SummaryResponse(results, availableDomains))
    /\ pc' = "done"
    /\ UNCHANGED <<env, oracle, domains, notifications, now, passesLeft, authHeader, method,
                   startTime, loaded, idx, task, results, availableDomains, prev, calls,
                   formVars, clientVars, overlapVars>>

\* Time passes while a request is being handled.
Tick ==
    /\ pc \in {"loading", "dispatching", "awaiting"}
    /\ now < 1 + MaxTicks * TickMs
    /\ now' = now + TickMs
    /\ UNCHANGED <<env, oracle, domains, notifications, passesLeft, pc, authHeader, method,
                   startTime, loaded, idx, task, results, availableDomains, response,
                   prev, calls, formVars, clientVars, overlapVars>>

Next ==
    \/ \E h \in AuthHeaders : Begin(h)
    \/ \E m \in OtherMethods : \E h \in AuthHeaders : OtherMethod(m, h)
    \/ /\ pc = "loading"
       /\ \E o \in LoadOutcomes : \E rows \in LoadOrders(domains) : Load(o, rows)
    \/ Dispatch
    \/ /\ pc = "awaiting"
       /\ \E d \in DOMAIN task : \E r \in oracle[d] : \E u \in UpdateOutcomes :
                OracleReturn(d, r, u)
    \/ /\ pc = "awaiting"
       /\ \E d \in DOMAIN task : UpdateReturn(d)
    \/ /\ pc = "awaiting"
       /\ \E d \in DOMAIN task : \E s \in SendOutcomes : \E i \in InsertOutcomes :
                SendReturn(d, s, i)
    \/ Finish
    \/ Tick

(***************************************************************************)
(* Initial states.                                                         *)
(***************************************************************************)
Statuses == {"unknown", "registered", "available"}

\* A row as the add form inserts it and as earlier passes leave it: status unknown
\* and never checked, or registered/available and checked at time 0.
Row(d, st, act) ==
    [name |-> DomainName(d), status |-> st, active |-> act,
     last_checked |-> IF st = "unknown" THEN None ELSE Some(0)]

Stores(ids) ==
    {[d \in ids |-> Row(d, st[d], act[d])] : st \in [ids -> Statuses], act \in [ids -> BOOLEAN]}

\* A form nobody has submitted yet.
NewForm ==
    [pc |-> "idle", name |-> <<>>, dup |-> "none", ins |-> "none", message |-> "none"]

FormsIdle == forms = [s \in 1..MaxForms |-> NewForm] /\ nextId = 3

FormIdle == rawInput = <<>> /\ normOnce = None /\ normTwice = None /\ FormsIdle
NoCall == [returned |-> "none", fetched |-> FALSE]
NoneAdmitted == [t \in {} |-> 0]
LimiterIdle == requests = <<>> /\ admitted = NoneAdmitted /\ denied = {} /\ lastCall = NoCall

ClientIdle ==
    /\ apiResp = [domain |-> "one.com", resp |-> JsonNoField]
    /\ checkResult = None
    /\ LimiterIdle

PassIdle ==
    /\ notifications = <<>>
    /\ now = 1
    /\ pc = "idle"
    /\ authHeader = None
    /\ method = "none"
    /\ startTime = 0
    /\ loaded = <<>>
    /\ idx = 1
    /\ task = NoTasks
    /\ results = <<>>
    /\ availableDomains = <<>>
    /\ response = None
    /\ prev = NoTasks
    /\ calls = NoCalls
    /\ runs = NoRuns

\* One invocation, two tracked domains, any configuration.
Init ==
    /\ env \in [Range(RequiredEnvVars) -> EnvValues]
    /\ oracle = [d \in DomainIds |-> PassResponses]
    /\ domains \in Stores({1, 2})
    /\ passesLeft = 1
    /\ PassIdle
    /\ FormIdle
    /\ ClientIdle

Spec == Init /\ [][Next]_vars

\* Consecutive invocations over one tracked domain; the service either answers that
\* domain the same way on every call or is free to answer differently each time.
InitTwoPass ==
    /\ env = EnvAllSet
    /\ \E rs \in {{r} : r \in AllResponses} \cup {PassResponses} :
            oracle = [d \in DomainIds |-> rs]
    /\ domains \in Stores({1})
    /\ passesLeft = MaxPasses
    /\ PassIdle
    /\ FormIdle
    /\ ClientIdle

SpecTwoPass == InitTwoPass /\ [][Next]_vars

\* The end-to-end scenario: three active domains persisted as registered, registered,
\* available, and the service answering false, true, false.
InitScenario ==
    /\ env = EnvAllSet
    /\ oracle = [d \in DomainIds |-> IF d = 2 THEN {Json("true")} ELSE {Json("false")}]
    /\ domains = [d \in DomainIds |->
                    Row(d, IF d = 3 THEN "available" ELSE "registered", TRUE)]
    /\ passesLeft = 1
    /\ PassIdle
    /\ FormIdle
    /\ ClientIdle

SpecScenario == InitScenario /\ [][Next]_vars

\* No request is handled in the runs of the form and of the client alone.
PassOff ==
    /\ oracle = [d \in DomainIds |-> PassResponses]
    /\ domains = [d \in {} |-> Row(d, "unknown", TRUE)]
    /\ passesLeft = 0
    /\ PassIdle

(***************************************************************************)
(* The form's normalisation, applied once and then again to its own result. *)
(***************************************************************************)
FormAlphabet == {"a", "W", "w", ".", "/", " "}

ExampleInputs ==
    { <<"H","T","T","P","S",":","/","/","W","W","W",".","E","x","a","m","p","l","e",".","C","O","M","/">>,
      <<"h","t","t","p",":","/","/","h","t","t","p","s",":","/","/","a",".","i","o">>,
      <<"w","w","w",".","w","w","w",".","a",".","i","o">>,
      <<" ","e","x","a","m","p","l","e",".","c","o","m","/","\n">>,
      <<"e","x","a","m","p","l","e",".","c","o","m">> }

FormInputs == SeqsUpTo(FormAlphabet, MaxLen) \cup ExampleInputs

NormalizeOnce ==
    /\ normOnce = None
    /\ normOnce' = Some(normalizeDomain(rawInput))
    /\ UNCHANGED <<rawInput, normTwice, forms, nextId, passVars, clientVars, overlapVars>>

NormalizeAgain ==
    /\ IsSome(normOnce)
    /\ normTwice = None
    /\ normTwice' = Some(normalizeDomain(Get(normOnce)))
    /\ UNCHANGED <<rawInput, normOnce, forms, nextId, passVars, clientVars, overlapVars>>

InitNormalize ==
    /\ rawInput \in FormInputs
    /\ normOnce = None
    /\ normTwice = None
    /\ FormsIdle
    /\ env = EnvAllSet
    /\ PassOff
    /\ ClientIdle

NextNormalize == NormalizeOnce \/ NormalizeAgain

SpecNormalize == InitNormalize /\ [][NextNormalize]_vars

(***************************************************************************)
(* The availability client alone: one call of checkDomainAvailability per  *)
(* exchange.                                                               *)
(***************************************************************************)
ClientDomains == {"one.com", "two.com", "three.com"}

CallCheck ==
    /\ checkResult = None
    /\ checkResult' = Some(checkDomainAvailability(env, apiResp.domain, apiResp.resp))
    /\ UNCHANGED <<apiResp, requests, admitted, denied, lastCall, passVars, formVars, overlapVars>>

InitClient ==
    /\ apiResp \in [domain : ClientDomains, resp : AllResponses]
    /\ checkResult = None
    /\ LimiterIdle
    /\ env \in {EnvAllSet, [EnvAllSet EXCEPT !["DOMAINSDUCK_API_KEY"] = ""]}
    /\ PassOff
    /\ FormIdle

SpecClient == InitClient /\ [][CallCheck]_vars

(***************************************************************************)
(* lib/domainsduck.ts: RateLimiter and checkDomainWithRateLimit            *)
(***************************************************************************)
\* new RateLimiter(30, 60 * 60 * 1000)
MaxRequests == 30
WindowMs == 3600000

\* Variant: a timestamp exactly one window old still counted.
FilterWindowInclusive(reqs, t) == SelectSeq(reqs, LAMBDA time : t - time <= WindowMs)

\* this.requests.filter(time => now - time < this.windowMs)
FilterWindow(reqs, t) == SelectSeq(reqs, LAMBDA time : t - time < WindowMs)

\* RateLimiter.canMakeRequest at time t: its answer and the list it leaves.
canMakeRequest(reqs, t) ==
    LET kept == FilterWindow(reqs, t)
    IN  IF Len(kept) < MaxRequests
        THEN [ok |-> TRUE, requests |-> Append(kept, t)]
        ELSE [ok |-> FALSE, requests |-> kept]

\* One more call let through at time t.
Admit(log, t) ==
    [u \in DOMAIN log \cup {t} |-> IF u = t
                                   THEN (IF t \in DOMAIN log THEN log[t] ELSE 0) + 1
                                   ELSE log[u]]

\* checkDomainWithRateLimit(domain): null when the limiter refuses, otherwise
\* checkDomainAvailability(domain), which sends its request when the API key is set.
checkDomainWithRateLimit ==
    LET r == canMakeRequest(requests, now)
        result == checkDomainAvailability(env, apiResp.domain, apiResp.resp)
    IN  /\ requests' = r.requests
        /\ IF r.ok
           THEN /\ admitted' = Admit(admitted, now)
                /\ checkResult' = Some(result)
                /\ lastCall' = [returned |-> "result",
                                fetched |-> env["DOMAINSDUCK_API_KEY"] # ""]
                /\ UNCHANGED denied
           ELSE /\ denied' = denied \cup {now}
                /\ checkResult' = None
                /\ lastCall' = [returned |-> "null", fetched |-> FALSE]
                /\ UNCHANGED admitted
        /\ UNCHANGED <<apiResp, passVars, formVars, overlapVars>>

\* Time passes between calls.
RateTick ==
    /\ now < 1 + MaxRateTicks * RateTickMs
    /\ now' = now + RateTickMs
    /\ UNCHANGED <<env, oracle, domains, notifications, passesLeft, pc, authHeader, method,
                   startTime, loaded, idx, task, results, availableDomains, response,
                   prev, calls, formVars, clientVars, overlapVars>>

NextLimiter == checkDomainWithRateLimit \/ RateTick

InitLimiter ==
    /\ apiResp = [domain |-> "one.com", resp |-> Json("true")]
    /\ checkResult = None
    /\ LimiterIdle
    /\ env \in {EnvAllSet, [EnvAllSet EXCEPT !["DOMAINSDUCK_API_KEY"] = ""]}
    /\ PassOff
    /\ FormIdle

SpecLimiter == InitLimiter /\ [][NextLimiter]_vars

(***************************************************************************)
(* The dashboard: AddDomainForm.handleSubmit and DomainList's delete and   *)
(* toggle, against table public.domains.  Names are character sequences    *)
(* here, as the form produces them.                                        *)
(***************************************************************************)
Digits == {"0", "1", "2", "3", "4", "5", "6", "7", "8", "9"}
Letters == Range(LowerChars) \cup Range(UpperChars)
AlphaNum == Letters \cup Digits

\* /^(?:[a-zA-Z0-9](?:[a-zA-Z0-9-]{0,61}[a-zA-Z0-9])?\.)+[a-zA-Z]{2,}$/.test(input)
\* Labels cannot contain a dot, so the split at the dots is the only way to match.
validateDomain(s) ==
    LET dots == {i \in 1..Len(s) : s[i] = "."}
        lastDot == CHOOSE i \in dots : \A j \in dots : j <= i
        starts == {1} \cup {i + 1 : i \in dots \ {lastDot}}
        LabelEnd(b) == (CHOOSE i \in dots : i >= b /\ \A j \in dots : j >= b => i <= j) - 1
    IN  /\ dots # {}
        /\ Len(s) - lastDot >= 2
        /\ \A i \in (lastDot + 1)..Len(s) : s[i] \in Letters
        /\ \A b \in starts :
              /\ LabelEnd(b) >= b
              /\ LabelEnd(b) - b + 1 <= 63
              /\ s[b] \in AlphaNum
              /\ s[LabelEnd(b)] \in AlphaNum
              /\ \A i \in b..LabelEnd(b) : s[i] \in AlphaNum \cup {"-"}

\* Variant: a table without the UNIQUE constraint on name.
NameNeverTaken(rows, name) == FALSE

\* name TEXT NOT NULL UNIQUE
NameTaken(rows, name) == \E d \in DOMAIN rows : rows[d].name = name

\* .from('domains').select('id').eq('name', domainName).maybeSingle(): !!data
checkDuplicate(rows, name) == \E d \in DOMAIN rows : rows[d].name = name

\* Variant: the insert without its status, the column default 'registered' applying.
InsertedWithDefaultStatus(name) ==
    [name |-> name, status |-> "registered", active |-> TRUE, last_checked |-> None]

\* .insert({ name: normalizedDomain, status: 'unknown', active: true })
InsertedRow(name) ==
    [name |-> name, status |-> "unknown", active |-> TRUE, last_checked |-> None]

AddRow(rows, id, row) == [d \in DOMAIN rows \cup {id} |-> IF d = id THEN row ELSE rows[d]]
RemoveRow(rows, id) == [d \in DOMAIN rows \ {id} |-> rows[d]]

\* The messages the form shows.
MsgEmpty == "enter a domain"
MsgInvalid == "not a valid domain format"
MsgDuplicate == "already registered"
MsgFailed == "failed"
MsgAdded == "added"

passLocals == <<env, oracle, notifications, now, passesLeft, pc, authHeader, method,
                startTime, loaded, idx, task, results, availableDomains, response, prev,
                calls>>

\* handleSubmit up to its first await: the empty test, normalisation and validation.
SubmitStart(f, input) ==
    /\ forms[f].pc = "idle"
    /\ LET name == normalizeDomain(input)
       IN  forms' = [forms EXCEPT ![f] =
                IF trim(input) = <<>>
                THEN [@ EXCEPT !.pc = "done", !.message = MsgEmpty]
                ELSE IF ~validateDomain(name)
                THEN [@ EXCEPT !.pc = "done", !.name = name, !.message = MsgInvalid]
                ELSE [@ EXCEPT !.pc = "checking", !.name = name]]
    /\ UNCHANGED <<rawInput, normOnce, normTwice, nextId, passVars, clientVars, overlapVars>>

\* checkDuplicate has answered (o = "error": the query failed).
DuplicateChecked(f, o) ==
    /\ forms[f].pc = "checking"
    /\ forms' = [forms EXCEPT ![f] =
            IF o = "error"
            THEN [@ EXCEPT !.pc = "done", !.dup = "error", !.message = MsgFailed]
            ELSE IF checkDuplicate(domains, forms[f].name)
            THEN [@ EXCEPT !.pc = "done", !.dup = "found", !.message = MsgDuplicate]
            ELSE [@ EXCEPT !.pc = "inserting", !.dup = "clear"]]
    /\ UNCHANGED <<rawInput, normOnce, normTwice, nextId, passVars, clientVars, overlapVars>>

\* The insert has answered: 23505 when the name is taken, another error when the
\* store cannot be reached (o = "error"), otherwise the row is in the table.
Inserted(f, o) ==
    /\ forms[f].pc = "inserting"
    /\ IF o = "error" THEN
            /\ forms' = [forms EXCEPT ![f] =
                    [@ EXCEPT !.pc = "done", !.ins = "error", !.message = MsgFailed]]
            /\ UNCHANGED <<domains, nextId>>
       ELSE IF NameTaken(domains, forms[f].name) THEN
            /\ forms' = [forms EXCEPT ![f] =
                    [@ EXCEPT !.pc = "done", !.ins = "23505", !.message = MsgDuplicate]]
            /\ UNCHANGED <<domains, nextId>>
       ELSE
            /\ domains' = AddRow(domains, nextId, InsertedRow(forms[f].name))
            /\ nextId' = nextId + 1
            /\ forms' = [forms EXCEPT ![f] =
                    [@ EXCEPT !.pc = "done", !.ins = "ok", !.message = MsgAdded]]
    /\ UNCHANGED <<rawInput, normOnce, normTwice, passLocals, clientVars, overlapVars>>

\* DomainList.handleDelete(id): the list on screen may be stale, so id may be gone.
\* The rows of email_notifications go with the domain (ON DELETE CASCADE).
handleDelete(id, o) ==
    /\ IF o = "ok" /\ id \in DOMAIN domains
       THEN /\ domains' = RemoveRow(domains, id)
            /\ notifications' = SelectSeq(notifications, LAMBDA n : n.domain_id # id)
       ELSE UNCHANGED <<domains, notifications>>
    /\ UNCHANGED <<env, oracle, now, passesLeft, pc, authHeader, method, startTime,
                   loaded, idx, task, results, availableDomains, response, prev, calls,
                   formVars, clientVars, overlapVars>>

\* DomainList.handleToggleActive(id, currentActive): .update({ active: !currentActive });
\* currentActive is what the list on screen shows.
handleToggleActive(id, currentActive, o) ==
    /\ domains' = IF o = "ok" /\ id \in DOMAIN domains
                  THEN [domains EXCEPT ![id].active = ~currentActive]
                  ELSE domains
    /\ UNCHANGED <<passLocals, formVars, clientVars, overlapVars>>

DbOutcomes == {"ok", "error"}

\* What people type into the form.
SubmitInputs ==
    { <<"a", ".", "i", "o">>,
      <<"A", ".", "I", "O", "/">>,
      <<"w", "w", "w", ".", "a", ".", "i", "o">>,
      <<"W", "w", "w", ".", "w", "w", "w", ".", "a", ".", "i", "o">>,
      <<" ", "b", "-", "1", ".", "i", "o">>,
      <<"a", ".", "i">>,
      <<"-", "a", ".", "i", "o">>,
      <<" ">> }

StoreIds == 1..(2 + MaxForms)

NextStore ==
    \/ \E f \in DOMAIN forms : \E input \in SubmitInputs : SubmitStart(f, input)
    \/ \E f \in DOMAIN forms : \E o \in DbOutcomes : DuplicateChecked(f, o)
    \/ \E f \in DOMAIN forms : \E o \in DbOutcomes : Inserted(f, o)
    \/ \E id \in StoreIds : \E o \in DbOutcomes : handleDelete(id, o)
    \/ \E id \in StoreIds : \E a \in BOOLEAN : \E o \in DbOutcomes :
            handleToggleActive(id, a, o)

\* The table before anybody uses the dashboard: empty, or rows earlier passes have
\* checked.
StoreRow(name, st, act) ==
    [name |-> name, status |-> st, active |-> act,
     last_checked |-> IF st = "unknown" THEN None ELSE Some(0)]

InitialStores ==
    {[d \in {} |-> InsertedRow(<<>>)]}
        \cup {[d \in {1} |-> StoreRow(<<"a", ".", "i", "o">>, st, act)] :
                    st \in Statuses, act \in BOOLEAN}
        \cup {[d \in {1, 2} |->
                    IF d = 1 THEN StoreRow(<<"b", "-", "1", ".", "i", "o">>, st, TRUE)
                    ELSE StoreRow(<<"c", ".", "i", "o">>, "available", act)] :
                    st \in Statuses, act \in BOOLEAN}

InitStore ==
    /\ env = EnvAllSet
    /\ oracle = [d \in DomainIds |-> PassResponses]
    /\ domains \in InitialStores
    /\ passesLeft = 0
    /\ PassIdle
    /\ FormIdle
    /\ ClientIdle

SpecStore == InitStore /\ [][NextStore]_vars

(***************************************************************************)
(* The dashboard and the scheduled pass side by side: one form, the list's *)
(* delete and toggle, and one invocation of GET, within one clock reading. *)
(***************************************************************************)
LifeInputs == { <<"W", "w", "w", ".", "a", ".", "i", "o">> }
LifeHeader == Some(<<"Bearer", "set">>)
LifeResponses == {Json("true"), Failure("timeout")}

LifeStores ==
    {[d \in {} |-> InsertedRow(<<>>)]}
        \cup {[d \in {1} |-> StoreRow(<<"b", "-", "1", ".", "i", "o">>, st, TRUE)] :
                    st \in Statuses}

NextLife ==
    \/ Begin(LifeHeader)
    \/ /\ pc = "loading"
       /\ \E o \in LoadOutcomes : \E rows \in LoadOrders(domains) : Load(o, rows)
    \/ Dispatch
    \/ /\ pc = "awaiting"
       /\ \E d \in DOMAIN task : \E r \in oracle[d] : \E u \in UpdateOutcomes :
                OracleReturn(d, r, u)
    \/ /\ pc = "awaiting"
       /\ \E d \in DOMAIN task : UpdateReturn(d)
    \/ /\ pc = "awaiting"
       /\ \E d \in DOMAIN task : \E s \in SendOutcomes : \E i \in InsertOutcomes :
                SendReturn(d, s, i)
    \/ Finish
    \/ \E input \in LifeInputs : SubmitStart(1, input)
    \/ \E o \in DbOutcomes : DuplicateChecked(1, o)
    \/ \E o \in DbOutcomes : Inserted(1, o)
    \/ \E id \in DOMAIN domains : handleDelete(id, "ok")
    \/ \E id \in DOMAIN domains : handleToggleActive(id, domains[id].active, "ok")

InitLife ==
    /\ env = EnvAllSet
    /\ oracle = [d \in StoreIds |-> LifeResponses]
    /\ domains \in LifeStores
    /\ passesLeft = 1
    /\ PassIdle
    /\ FormIdle
    /\ ClientIdle

SpecLife == InitLife /\ [][NextLife]_vars

(***************************************************************************)
(* Two invocations of GET that overlap in time.  Each runs the steps of    *)
(* the handler on its own locals; the store is shared.  The clock stands   *)
(* still: both invocations stay within their deadline.                     *)
(***************************************************************************)
RunLoadedRow(r, d) ==
    runs[r].loaded[CHOOSE i \in 1..Len(runs[r].loaded) : runs[r].loaded[i].id = d]

overlapFrame == <<env, oracle, now, passesLeft, pc, authHeader, method, startTime, loaded,
                  idx, task, results, availableDomains, response, prev, calls,
                  formVars, clientVars>>

\* Invocation r: startTime, environment validation, authorization.
RunBegin(r, h) ==
    /\ runs[r].pc = "idle"
    /\ runs' = [runs EXCEPT ![r] =
            [@ EXCEPT !.startTime = now,
                      !.response = Admission(env, h),
                      !.pc = IF IsSome(Admission(env, h)) THEN "done" ELSE "loading"]]
    /\ UNCHANGED <<domains, notifications, overlapFrame>>

\* Invocation r: the query for the active domains.
RunLoad(r, o, rows) ==
    /\ runs[r].pc = "loading"
    /\ runs' = [runs EXCEPT ![r] =
            IF o = "throw" THEN [@ EXCEPT !.response = Some(InternalErrorResponse),
                                          !.pc = "done"]
            ELSE IF o = "error" THEN [@ EXCEPT !.response = Some(DatabaseErrorResponse),
                                               !.pc = "done"]
            ELSE IF Len(rows) = 0 THEN [@ EXCEPT !.response = Some(EmptyResponse),
                                                 !.pc = "done"]
            ELSE [@ EXCEPT !.loaded = rows,
                           !.task = [d \in {rows[i].id : i \in 1..Len(rows)} |-> NewRunTask],
                           !.pc = "dispatching"]]
    /\ UNCHANGED <<domains, notifications, overlapFrame>>

\* Invocation r: domains.map starts the callback of the next domain.
RunDispatch(r) ==
    /\ runs[r].pc = "dispatching"
    /\ LET run == runs[r]
           d == run.loaded[run.idx].id
           skip == DeadlineExceeded(now - run.startTime)
       IN  runs' = [runs EXCEPT ![r] =
                [@ EXCEPT !.task[d].st = IF skip THEN "skipped" ELSE "checking",
                          !.idx = run.idx + 1,
                          !.pc = IF run.idx = Len(run.loaded) THEN "awaiting"
                                 ELSE "dispatching"]]
    /\ UNCHANGED <<domains, notifications, overlapFrame>>

\* Invocation r: checkDomainAvailability returns for domain d, newStatus and
\* statusChanged are computed against the row as this invocation loaded it, and the
\* update is issued.
RunOracleReturn(r, d, resp, u) ==
    /\ runs[r].pc = "awaiting"
    /\ d \in DOMAIN runs[r].task
    /\ runs[r].task[d].st = "checking"
    /\ LET row == RunLoadedRow(r, d)
           result == checkDomainAvailability(env, row.name, resp)
           newStatus == NewStatus(result)
           changed == StatusChanged(row.status, newStatus)
       IN  /\ runs' = [runs EXCEPT ![r].task[d] =
                    [@ EXCEPT !.st = "updating", !.available = result.available,
                              !.newStatus = newStatus, !.changed = changed, !.upd = u,
                              !.before = IF u = "ok" /\ d \in DOMAIN domains
                                         THEN domains[d].status ELSE "none"]]
           /\ domains' = IF u = "ok" THEN UpdateDomain(domains, d, newStatus, now)
                         ELSE domains
    /\ UNCHANGED <<notifications, overlapFrame>>

\* Invocation r: the update for domain d has settled: the result entry,
\* availableDomains, and the call of sendAvailabilityNotification.
RunUpdateReturn(r, d) ==
    /\ runs[r].pc = "awaiting"
    /\ d \in DOMAIN runs[r].task
    /\ runs[r].task[d].st = "updating"
    /\ LET t == runs[r].task[d]
           row == RunLoadedRow(r, d)
           notify == ShouldNotify([available |-> t.available], t.changed)
           canSend == env["NOTIFICATION_EMAIL"] # "" /\ env["RESEND_FROM_EMAIL"] # ""
       IN  runs' = [runs EXCEPT ![r] =
                IF t.upd = "throw"
                THEN [@ EXCEPT !.results = Append(@, CatchEntry(row, "update failed")),
                               !.task[d].st = "settled"]
                ELSE [@ EXCEPT !.results = Append(@, ResultEntry(row, t.newStatus, t.changed)),
                               !.availableDomains = IF t.available THEN Append(@, d) ELSE @,
                               !.notify = IF notify THEN @ \cup {d} ELSE @,
                               !.task[d].st = IF notify /\ canSend THEN "sending"
                                              ELSE "settled"]]
    /\ UNCHANGED <<domains, notifications, overlapFrame>>

\* Invocation r: resend.emails.send has ended for domain d and the row for
\* email_notifications has been inserted, or not.
RunSendReturn(r, d, s, i) ==
    /\ runs[r].pc = "awaiting"
    /\ d \in DOMAIN runs[r].task
    /\ runs[r].task[d].st = "sending"
    /\ LET ins == IF s = "throw" THEN "none"
                  ELSE IF d \notin DOMAIN domains THEN "error"
                  ELSE i
       IN  /\ notifications' = notifications \o NotificationRows(d, s, ins)
           /\ runs' = [runs EXCEPT ![r].task[d] =
                    [@ EXCEPT !.st = "settled", !.send = s, !.ins = ins]]
    /\ UNCHANGED <<domains, overlapFrame>>

\* Invocation r: await Promise.all(checkPromises), then the summary.
RunFinish(r) ==
    /\ runs[r].pc = "awaiting"
    /\ \A d \in DOMAIN runs[r].task : runs[r].task[d].st \in {"settled", "skipped"}
    /\ runs' = [runs EXCEPT ![r] =
            [@ EXCEPT !.response = Some(SummaryResponse(runs[r].results,
                                                        runs[r].availableDomains)),
                      !.pc = "done"]]
    /\ UNCHANGED <<domains, notifications, overlapFrame>>

NextOverlap ==
    \/ \E r \in Invocations : RunBegin(r, LifeHeader)
    \/ \E r \in Invocations :
            /\ runs[r].pc = "loading"
            /\ \E o \in LoadOutcomes : \E rows \in LoadOrders(domains) : RunLoad(r, o, rows)
    \/ \E r \in Invocations : RunDispatch(r)
    \/ \E r \in Invocations :
            /\ runs[r].pc = "awaiting"
            /\ \E d \in DOMAIN runs[r].task : \E resp \in oracle[d] :
                    \E u \in UpdateOutcomes : RunOracleReturn(r, d, resp, u)
    \/ \E r \in Invocations :
            /\ runs[r].pc = "awaiting"
            /\ \E d \in DOMAIN runs[r].task : RunUpdateReturn(r, d)
    \/ \E r \in Invocations :
            /\ runs[r].pc = "awaiting"
            /\ \E d \in DOMAIN runs[r].task : \E s \in SendOutcomes :
                    \E i \in InsertOutcomes : RunSendReturn(r, d, s, i)
    \/ \E r \in Invocations : RunFinish(r)

InitOverlap ==
    /\ env = EnvAllSet
    /\ oracle = [d \in DomainIds |-> PassResponses]
    /\ domains \in Stores({1})
    /\ passesLeft = 0
    /\ PassIdle
    /\ FormIdle
    /\ ClientIdle

SpecOverlap == InitOverlap /\ [][NextOverlap]_vars

(***************************************************************************)
(* Properties.                                                             *)
(***************************************************************************)
Done == pc = "done"
Resp == Get(response)
EntriesOf(d) == {i \in 1..Len(results) : results[i].domain = DomainName(d)}
EntryOf(d) == results[CHOOSE i \in EntriesOf(d) : TRUE]
RowsOf(d) == {i \in 1..Len(notifications) : notifications[i].domain_id = d}
TimedOut(t) == IsSome(t.resp) /\ Get(t.resp).kind = "timeout"
RowAsLoaded(d) ==
    /\ domains[d].status = LoadedRow(d).status
    /\ domains[d].last_checked = LoadedRow(d).last_checked
ConfigComplete == \A k \in DOMAIN env : env[k] # ""
\* The Authorization header is missing or is not 'Bearer <CRON_SECRET>'.
HeaderMismatch == authHeader = None \/ Get(authHeader) # <<"Bearer", env["CRON_SECRET"]>>

\* C1: after a pass, every domain whose call to the service timed out has the
\* persisted status and last_checked it had when the pass loaded it.
C1_TimeoutLeavesRowUntouched ==
    Done => \A d \in DOMAIN task : TimedOut(task[d]) => RowAsLoaded(d)

\* C2: a pass whose check moves a domain from registered to available (the write
\* applied, the log insert not rejected) makes exactly one notification attempt and
\* leaves exactly one email_notifications row for it; a domain the previous pass
\* wrote as available and this pass finds available again is not notified.
C2_OneNotificationPerEdge ==
    Done => \A d \in DOMAIN task :
        LET t == task[d]
        IN  /\ ( /\ t.st = "settled"
                 /\ t.upd = "ok"
                 /\ t.ins # "error"
                 /\ LoadedRow(d).status = "registered"
                 /\ t.newStatus = "available" )
                    => /\ d \in calls.notify
                       /\ d \in calls.send
                       /\ Cardinality(RowsOf(d)) = 1
            /\ ( /\ d \in DOMAIN prev
                 /\ prev[d].upd = "ok"
                 /\ prev[d].newStatus = "available"
                 /\ t.st = "settled"
                 /\ t.newStatus = "available" )
                    => d \notin calls.notify

C4_ConfigErrorListsMissing ==
    (Done /\ method = "GET" /\ ~ConfigComplete) =>
        /\ Resp.status = 500
        /\ Resp.success = FALSE
        /\ Resp.missingVars = Some(MissingVars(env))
        /\ calls = NoCalls

\* C5: 'true' and 'premium domain' give available=true, 'false', 'reserved' and
\* 'bad tld' give available=false, and any other or absent code gives an error
\* instead of an availability decision.
C5_CodeMapping ==
    (IsSome(checkResult) /\ apiResp.resp.kind = "json" /\ env["DOMAINSDUCK_API_KEY"] # "") =>
        LET code == apiResp.resp.availability
            res == Get(checkResult)
        IN  IF IsSome(code) /\ Get(code) \in {"true", "premium domain"}
            THEN res.available /\ res.error = None
            ELSE IF IsSome(code) /\ Get(code) \in {"false", "reserved", "bad tld"}
            THEN ~res.available /\ res.error = None
            ELSE IF IsSome(code) /\ LowerCode(Get(code)) \in DocumentedCodes
            THEN TRUE
            ELSE IsSome(res.error)

\* C6: once a domain is reached for dispatch with more than 9000 ms elapsed, that
\* domain and every later one in load order get no call to the service, no write
\* (the row stays as loaded) and no entry in the summary.
C6_SkippedAfterDeadline ==
    \A i \in 1..Len(loaded) :
        (task[loaded[i].id].st # "pending" /\ task[loaded[i].id].elapsed > SoftDeadlineMs) =>
            \A j \in i..Len(loaded) :
                LET e == loaded[j].id
                IN  /\ task[e].st \in {"pending", "skipped"}
                    /\ e \notin calls.oracle
                    /\ e \notin calls.update
                    /\ RowAsLoaded(e)
                    /\ EntriesOf(e) = {}
                    /\ Done => /\ task[e].st = "skipped"
                               /\ Resp.kind = "summary"
                               /\ \A k \in 1..Len(Resp.domains) :
                                        Resp.domains[k].domain # DomainName(e)

C6_Witness ==
    /\ Done
    /\ Resp.kind = "summary"
    /\ Len(loaded) = 2
    /\ task[loaded[1].id].st = "settled"
    /\ task[loaded[1].id].elapsed = SoftDeadlineMs
    /\ task[loaded[2].id].st = "skipped"
    /\ Resp.checked = 1

\* C7: normalizeDomain(normalizeDomain(x)) = normalizeDomain(x).
C7_NormalizeIdempotent ==
    IsSome(normTwice) => Get(normTwice) = Get(normOnce)

\* C8: every invocation of the notifier leaves exactly one email_notifications row
\* for the domain, 'sent' when the send succeeded and 'failed' with the error detail
\* otherwise, however the send ended (the log insert not being rejected).
C8_OneRowPerInvocation ==
    \A d \in DOMAIN task :
        (d \in calls.notify /\ task[d].st = "settled" /\ task[d].ins # "error") =>
            /\ Cardinality(RowsOf(d)) = 1
            /\ \A i \in RowsOf(d) :
                IF task[d].send = "sent"
                THEN notifications[i].status = "sent"
                ELSE notifications[i].status = "failed" /\ IsSome(notifications[i].error_message)

\* The service answers domain d with one and the same availability code on every call.
SameCodeAlways(d) ==
    \E r \in oracle[d] : oracle[d] = {r} /\ r.kind = "json" /\ IsSome(r.availability)

\* C9 as stated: in a pass that follows another pass, the entry of a domain the
\* service always answers with the same code has changed=false.
C9_SecondPassUnchanged ==
    \A d \in DOMAIN task :
        (prev # NoTasks /\ SameCodeAlways(d) /\ EntriesOf(d) # {}) => ~EntryOf(d).changed

\* C9, amended: ... provided the previous pass checked the domain and its status
\* write was applied.
C9_SecondPassUnchangedAfterWrite ==
    \A d \in DOMAIN task :
        ( /\ d \in DOMAIN prev
          /\ prev[d].upd = "ok"
          /\ SameCodeAlways(d)
          /\ EntriesOf(d) # {} ) => ~EntryOf(d).changed

C9_Witness ==
    /\ Done
    /\ 1 \in DOMAIN prev
    /\ 1 \in DOMAIN task
    /\ prev[1].upd = "ok"
    /\ prev[1].changed
    /\ oracle[1] = {Json("true")}
    /\ task[1].upd = "ok"
    /\ EntriesOf(1) # {}
    /\ ~EntryOf(1).changed

\* The scenario ran in full: all three domains were answered by the service and no
\* update threw.
ScenarioRan ==
    /\ Done
    /\ Resp.kind = "summary"
    /\ \A d \in DomainIds : d \in DOMAIN task /\ IsSome(task[d].resp) /\ task[d].upd # "throw"

\* C10 as stated: checked=3, available=1, domain #2 changed from 'registered',
\* domain #3 has changed=false, and the one notification is for domain #2.
C10_ScenarioAsStated ==
    ScenarioRan =>
        /\ Resp.checked = 3
        /\ Resp.available = 1
        /\ EntryOf(2).changed /\ EntryOf(2).previousStatus = Some("registered")
        /\ ~EntryOf(3).changed
        /\ calls.notify = {2}

\* C10, amended: domain #3, persisted as available and answered 'false', is
\* reported with changed=true and previousStatus 'available' (and status registered);
\* the rest is as stated.
C10_Scenario ==
    ScenarioRan =>
        /\ Resp.checked = 3
        /\ Resp.available = 1
        /\ Cardinality(EntriesOf(2)) = 1
        /\ EntryOf(2).changed /\ EntryOf(2).previousStatus = Some("registered")
        /\ EntryOf(2).status = "available"
        /\ Cardinality(EntriesOf(3)) = 1
        /\ EntryOf(3).changed /\ EntryOf(3).previousStatus = Some("available")
        /\ EntryOf(3).status = "registered"
        /\ calls.notify = {2}
        /\ calls.send = {2}

C10_Witness ==
    /\ ScenarioRan
    /\ \A d \in DomainIds : task[d].upd = "ok"
    /\ task[2].send = "sent"
    /\ Len(notifications) = 1

\* A check of domain d failed somewhere: the service call, the update or the send.
FailedSomewhere(d) ==
    \/ IsSome(task[d].resp) /\ Get(task[d].resp).kind # "json"
    \/ task[d].upd \in {"error", "throw"}
    \/ task[d].send \in {"error", "throw"}
    \/ task[d].ins = "error"

\* The check of domain e ran in full: the service was called, the update was issued
\* (and, when the store applied it, the row holds the new status), and the summary has
\* one entry for it.
RanInFull(e) ==
    /\ e \in calls.oracle
    /\ e \in calls.update
    /\ task[e].upd = "ok" =>
            /\ domains[e].status = task[e].newStatus
            /\ IsSome(domains[e].last_checked)
    /\ Cardinality(EntriesOf(e)) = 1
    /\ \E k \in 1..Len(Resp.domains) : Resp.domains[k].domain = DomainName(e)

\* C11: whatever failed for one domain of a pass (service call, update, send, log
\* insert), every other loaded domain that was dispatched before the soft deadline is
\* checked, written and reported, and the response is 200 with success=true.
C11_FailureStaysLocal ==
    (Done /\ loaded # <<>>) =>
        /\ Resp.status = 200
        /\ Resp.success
        /\ \A d, e \in DOMAIN task :
                (d # e /\ FailedSomewhere(d) /\ task[e].st # "skipped") => RanInFull(e)

C11_Witness ==
    /\ Done
    /\ DOMAIN task = {1, 2}
    /\ task[1].upd = "throw"
    /\ task[2].upd = "ok"
    /\ task[2].st = "settled"
    /\ task[2].newStatus = "available"
    /\ domains[2].status = "available"
    /\ Resp.status = 200
    /\ Resp.checked = 2

\* The response is one of the JSON bodies the handler builds.
StructuredByHandler ==
    Resp.kind \in {"summary", "No active domains to check", "Unauthorized",
                   "Configuration error", "Database error", "Internal server error"}

\* C12: every invocation ends in a JSON response built by the handler; it is 200 (the
\* summary, or the note that there is nothing to check) unless the request failed as a
\* whole, and then it is 401 for authorization and 500 for configuration, these two
\* being the only responses that are not 200.
C12_StructuredResponse ==
    (Done /\ method = "GET") =>
        /\ StructuredByHandler
        /\ \/ Resp.status = 200 /\ Resp.kind \in {"summary", "No active domains to check"}
           \/ Resp.status = 401 /\ Resp.kind = "Unauthorized" /\ HeaderMismatch
           \/ Resp.status = 500 /\ Resp.kind = "Configuration error" /\ ~ConfigComplete

\* C13 as stated: a request with a method other than GET is answered 405 and makes no
\* call to the store, the service or the mail sender.
C13_OtherMethodIs405 ==
    (Done /\ method # "GET") => (Resp.status = 405 /\ calls = NoCalls)

\* C13, amended: such a request makes no outbound call and changes no row; POST is
\* answered 405 and HEAD 200 with an empty body, and either one 500 when the route
\* module cannot load.
C13_OtherMethodDoesNothing ==
    (Done /\ method # "GET") =>
        /\ calls = NoCalls
        /\ results = <<>>
        /\ Resp.status = IF ~ResendModuleLoads(env) THEN 500
                         ELSE IF method = "POST" THEN 405
                         ELSE 200
        /\ Resp.kind \notin {"summary", "No active domains to check"}

C13_Witness ==
    /\ Done
    /\ method = "POST"
    /\ authHeader = Some(<<"Bearer", "set">>)
    /\ ConfigComplete
    /\ Resp.status = 405
    /\ \E d \in DOMAIN domains : domains[d].active

\* C14: no two rows of public.domains carry the same name, whatever the interleaving
\* of submissions, and a submission whose insert the store rejected for the name being
\* taken tells the user that the domain is already registered.
C14_NamesUnique ==
    /\ \A d, e \in DOMAIN domains : d # e => domains[d].name # domains[e].name
    /\ \A f \in DOMAIN forms :
            forms[f].ins = "23505" => (forms[f].pc = "done" /\ forms[f].message = MsgDuplicate)

C14_Witness ==
    /\ forms[1].name = forms[2].name
    /\ forms[1].dup = "clear" /\ forms[2].dup = "clear"
    /\ forms[1].ins = "ok"
    /\ forms[2].ins = "23505"
    /\ Cardinality({d \in DOMAIN domains : domains[d].name = forms[1].name}) = 1

\* C15: whenever the notifier has been invoked for a domain in a pass, that domain's
\* update has been issued and has settled before; when the store applied it, the row
\* already holds status available and the new last_checked.
C15_UpdateBeforeNotification ==
    \A d \in calls.notify :
        /\ d \in calls.update
        /\ task[d].upd \in {"ok", "error"}
        /\ task[d].st \in {"sending", "settled"}
        /\ task[d].upd = "ok" =>
                /\ domains[d].status = "available"
                /\ IsSome(domains[d].last_checked)
                /\ Get(domains[d].last_checked) >= startTime

C15_Witness ==
    /\ pc = "awaiting"
    /\ \E d \in calls.send :
            /\ task[d].st = "sending"
            /\ task[d].upd = "ok"
            /\ LoadedRow(d).status = "registered"
            /\ domains[d].status = "available"
            /\ RowsOf(d) = {}

\* C16: when the pass answers, every check it launched has run to its end: the update
\* has settled (and, when applied, is in the row), the send, if any, has ended, and the
\* check has its entry in the summary; this includes the checks that were still in
\* flight when the soft deadline passed.
C16_ResponseAfterAllSettled ==
    (Done /\ loaded # <<>>) =>
        /\ Resp.kind = "summary"
        /\ \A d \in DOMAIN task :
              /\ task[d].st \in {"settled", "skipped"}
              /\ d \in calls.oracle =>
                    /\ task[d].st = "settled"
                    /\ d \in calls.update
                    /\ task[d].upd # "none"
                    /\ task[d].upd = "ok" =>
                            /\ domains[d].status = task[d].newStatus
                            /\ IsSome(domains[d].last_checked)
                    /\ d \in calls.send => task[d].send # "none"
                    /\ Cardinality({k \in 1..Len(Resp.domains) :
                                        Resp.domains[k].domain = DomainName(d)}) = 1

\* A check launched within the budget whose answer came after the deadline.
C16_Witness ==
    /\ Done
    /\ Resp.kind = "summary"
    /\ \E d \in DOMAIN task :
            /\ task[d].elapsed <= SoftDeadlineMs
            /\ task[d].upd = "ok"
            /\ task[d].send = "sent"
            /\ Get(domains[d].last_checked) - startTime > SoftDeadlineMs
            /\ domains[d].status = "available"
            /\ \E k \in 1..Len(Resp.domains) :
                    Resp.domains[k].domain = DomainName(d) /\ Resp.domains[k].changed

\* C17: the summary entry of a domain whose call to the service failed carries the
\* status the row had when it was loaded, changed=false and the failure message.
C17_FailedCheckEntry ==
    Done => \A d \in DOMAIN task :
        (IsSome(task[d].resp) /\ Get(task[d].resp).kind # "json" /\ EntriesOf(d) # {}) =>
            \A i \in EntriesOf(d) :
                /\ results[i].status = LoadedRow(d).status
                /\ ~results[i].changed
                /\ IsSome(results[i].error)

\* C18: what the pass loads is exactly the rows with active = true, in ascending order
\* of last_checked with the never-checked rows (last_checked null) first.
C18_LoadOrderNullsFirst ==
    (pc \in {"dispatching", "awaiting"}) =>
        /\ {loaded[i].id : i \in 1..Len(loaded)} = ActiveIds(domains)
        /\ Len(loaded) = Cardinality(ActiveIds(domains))
        /\ \A i, j \in 1..Len(loaded) :
                i < j =>
                    /\ ~(IsSome(loaded[i].last_checked) /\ ~IsSome(loaded[j].last_checked))
                    /\ (IsSome(loaded[i].last_checked) /\ IsSome(loaded[j].last_checked)) =>
                            Get(loaded[i].last_checked) <= Get(loaded[j].last_checked)

\* C19: a step of the dashboard (adding, deleting, toggling) leaves the name, status
\* and last_checked of every row that stays in the table as they were, and a row it
\* adds is active, has status unknown and has never been checked.
C19_OnlyThePassSetsStatus ==
    [][\A d \in DOMAIN domains' :
            IF d \in DOMAIN domains
            THEN /\ domains'[d].name = domains[d].name
                 /\ domains'[d].status = domains[d].status
                 /\ domains'[d].last_checked = domains[d].last_checked
            ELSE /\ domains'[d].status = "unknown"
                 /\ domains'[d].last_checked = None
                 /\ domains'[d].active]_vars

\* Row 1 toggled off, row 2 deleted and a row added, row 1 still as the pass left it.
C19_Witness ==
    /\ DOMAIN domains = {1, 3}
    /\ ~domains[1].active
    /\ domains[1].status = "registered"
    /\ domains[1].last_checked = Some(0)
    /\ domains[3].status = "unknown"
    /\ \E f \in DOMAIN forms : forms[f].ins = "ok"

\* The number of admitted calls in the hour that starts at time t.
RECURSIVE SumOver(_, _)
SumOver(f, S) ==
    IF S = {} THEN 0
    ELSE LET t == CHOOSE u \in S : TRUE IN f[t] + SumOver(f, S \ {t})

AdmittedFrom(t) == SumOver(admitted, {u \in DOMAIN admitted : u >= t /\ u - t < WindowMs})

\* The number of admitted calls that lie within the last hour at time t.
LiveAt(t) == SumOver(admitted, {u \in DOMAIN admitted : u <= t /\ t - u < WindowMs})

\* The call of checkDomainWithRateLimit this step makes: refused, without a request to
\* the service and without a slot taken, when 30 admitted calls lie within the last
\* hour, and admitted otherwise.
LimitedCallStep ==
    (now' = now) =>
        IF LiveAt(now) >= MaxRequests
        THEN /\ lastCall'.returned = "null"
             /\ ~lastCall'.fetched
             /\ checkResult' = None
             /\ admitted' = admitted
             /\ Len(requests') <= Len(requests)
        ELSE /\ lastCall'.returned = "result"
             /\ IsSome(checkResult')
             /\ admitted' = Admit(admitted, now)

\* C20: no hour-long window starting at an admitted call holds more than 30 admitted
\* calls, and every call is refused or admitted as LimitedCallStep says.
C20_SlidingWindowLimit ==
    /\ [](\A t \in DOMAIN admitted : AdmittedFrom(t) <= MaxRequests)
    /\ [][LimitedCallStep]_vars

\* Thirty calls admitted, one refused, and a call admitted again after the first ones
\* left the window.
C20_Witness ==
    /\ SumOver(admitted, DOMAIN admitted) > MaxRequests
    /\ denied # {}
    /\ lastCall.returned = "result"
    /\ lastCall.fetched
    /\ \E t \in DOMAIN admitted : now - t >= WindowMs
    /\ \E t \in denied : LiveAt(t) >= MaxRequests

\* The check of domain d has passed the point where the notifier is or is not invoked.
PastNotifyDecision(d) == task[d].st \in {"sending", "settled"}

\* C21 as stated: the notifier is invoked for a domain exactly when its check returned
\* available and the status loaded for it was not available.
C21_NotifiedIffBecameAvailable ==
    \A d \in DOMAIN task :
        PastNotifyDecision(d) =>
            (d \in calls.notify <=>
                (task[d].available /\ LoadedRow(d).status # "available"))

\* C21, amended: the notifier is invoked for a domain exactly when its check returned
\* available, the status loaded for it was not available and the update call did not
\* throw; a change from available to registered is written with no notification.
C21_NotifiedIffBecameAvailableAndWritten ==
    \A d \in DOMAIN task :
        /\ ~PastNotifyDecision(d) => d \notin calls.notify
        /\ PastNotifyDecision(d) =>
            /\ d \in calls.notify <=>
                    /\ task[d].available
                    /\ LoadedRow(d).status # "available"
                    /\ task[d].upd # "throw"
            /\ ( /\ LoadedRow(d).status = "available"
                 /\ task[d].newStatus = "registered"
                 /\ task[d].upd = "ok" ) =>
                    /\ domains[d].status = "registered"
                    /\ d \notin calls.notify
                    /\ RowsOf(d) = {}

C21_Witness ==
    /\ Done
    /\ DOMAIN task = {1, 2}
    /\ LoadedRow(1).status = "available"
    /\ task[1].upd = "ok"
    /\ domains[1].status = "registered"
    /\ LoadedRow(2).status = "unknown"
    /\ task[2].available
    /\ calls.notify = {2}

\* C22 as stated: when the update of a domain failed, rejected or thrown, the pass
\* still answers with the summary, the domain's entry carries the computed status and
\* changed flag, and the row is as it was loaded.
C22_WriteFailureKeepsEntry ==
    Done => \A d \in DOMAIN task :
        task[d].upd \in {"error", "throw"} =>
            /\ Resp.kind = "summary"
            /\ RowAsLoaded(d)
            /\ Cardinality(EntriesOf(d)) = 1
            /\ EntryOf(d).status = task[d].newStatus
            /\ EntryOf(d).changed = task[d].changed

\* C22, amended: when the store rejected the update with an error result, the entry
\* carries the computed status and changed flag; when the update call threw, the entry
\* is the one of the catch branch: status registered, changed=false and the error
\* message.  Either way the pass answers with the summary and the row is as loaded.
C22_WriteFailureEntry ==
    Done => \A d \in DOMAIN task :
        task[d].upd \in {"error", "throw"} =>
            /\ Resp.kind = "summary"
            /\ Resp.status = 200
            /\ RowAsLoaded(d)
            /\ Cardinality(EntriesOf(d)) = 1
            /\ IF task[d].upd = "error"
               THEN /\ EntryOf(d).status = task[d].newStatus
                    /\ EntryOf(d).changed = (task[d].newStatus # LoadedRow(d).status)
                    /\ EntryOf(d).error = None
               ELSE /\ EntryOf(d).status = "registered"
                    /\ ~EntryOf(d).changed
                    /\ IsSome(EntryOf(d).error)

C22_Witness ==
    /\ Done
    /\ \E d \in DOMAIN task :
            /\ task[d].upd = "error"
            /\ task[d].newStatus = "available"
            /\ LoadedRow(d).status = "registered"
            /\ domains[d].status = "registered"
            /\ EntriesOf(d) # {}
            /\ EntryOf(d).status = "available"
            /\ EntryOf(d).changed

\* C23: when the send for a domain that the pass has just written as available did
\* not succeed (an error result or a throw), the row still holds status available and
\* the last_checked this pass set, and the domain's entry reports status available,
\* changed=true, the loaded status as previousStatus and no error.
C23_SendFailureLeavesStatus ==
    \A d \in DOMAIN task :
        (task[d].send \in {"error", "throw"} /\ task[d].upd = "ok") =>
            /\ domains[d].status = "available"
            /\ IsSome(domains[d].last_checked)
            /\ Get(domains[d].last_checked) >= startTime
            /\ Cardinality(EntriesOf(d)) = 1
            /\ EntryOf(d).status = "available"
            /\ EntryOf(d).changed
            /\ EntryOf(d).previousStatus = Some(LoadedRow(d).status)
            /\ EntryOf(d).error = None
            /\ Done => /\ Resp.kind = "summary"
                       /\ \E k \in 1..Len(Resp.domains) : Resp.domains[k] = EntryOf(d)

C23_Witness ==
    /\ Done
    /\ \E d \in DOMAIN task :
            /\ task[d].send = "throw"
            /\ task[d].upd = "ok"
            /\ LoadedRow(d).status = "registered"
            /\ domains[d].status = "available"
            /\ EntryOf(d).changed
            /\ RowsOf(d) = {}

\* C24 as stated: in every entry, changed is true exactly when the entry's status
\* differs from the status loaded for the domain, and previousStatus is present, and
\* is that loaded status, exactly when changed is true.
C24_ChangedIffStatusDiffers ==
    \A d \in DOMAIN task : \A i \in EntriesOf(d) :
        /\ results[i].changed <=> (results[i].status # LoadedRow(d).status)
        /\ results[i].previousStatus =
                IF results[i].changed THEN Some(LoadedRow(d).status) ELSE None

\* C24, amended: this holds of every entry without an error field, whose status is the
\* computed one; the entry of the catch branch has status registered, changed=false
\* and no previousStatus, whatever status was loaded or computed.
C24_ChangedIffStatusDiffersUnlessCaught ==
    \A d \in DOMAIN task : \A i \in EntriesOf(d) :
        IF results[i].error = None
        THEN /\ results[i].status = task[d].newStatus
             /\ results[i].changed <=> (results[i].status # LoadedRow(d).status)
             /\ results[i].previousStatus =
                    IF results[i].changed THEN Some(LoadedRow(d).status) ELSE None
        ELSE /\ task[d].upd = "throw"
             /\ results[i].status = "registered"
             /\ ~results[i].changed
             /\ results[i].previousStatus = None

C24_Witness ==
    /\ Done
    /\ DOMAIN task = {1, 2}
    /\ EntriesOf(1) # {} /\ EntriesOf(2) # {}
    /\ EntryOf(1).changed
    /\ EntryOf(1).previousStatus = Some("unknown")
    /\ EntryOf(1).status = "registered"
    /\ ~EntryOf(2).changed
    /\ EntryOf(2).error = None
    /\ EntryOf(2).status = "available"

\* A name in normalized form: lowercase, no scheme, no leading www., no trailing slash.
IsNormalizedName(n) ==
    /\ n = toLowerCase(n)
    /\ ~HasPrefix(n, HttpPrefix)
    /\ ~HasPrefix(n, HttpsPrefix)
    /\ ~HasPrefix(n, WwwPrefix)
    /\ (Len(n) = 0 \/ n[Len(n)] # "/")

\* C25: every name a submission of the add form has inserted is in normalized form.
C25_InsertedNamesNormalized ==
    \A f \in DOMAIN forms : forms[f].ins = "ok" => IsNormalizedName(forms[f].name)

CheckFails ==
    \/ env["DOMAINSDUCK_API_KEY"] = ""
    \/ apiResp.resp.kind \in FailureKinds

SummaryEntriesOf(d) ==
    {i \in 1..Len(Resp.domains) : Resp.domains[i].domain = DomainName(d)}

\* C28: in a success response of the pass, checked is the number of entries, every
\* dispatched domain has exactly one entry and a skipped domain none, available is
\* the number of entries with status available, and
\* available <= checked <= number of domains loaded.
C28_SummaryCounts ==
    (Done /\ method = "GET" /\ Resp.kind = "summary") =>
        /\ Resp.checked = Len(Resp.domains)
        /\ \A d \in DOMAIN task :
                Cardinality(SummaryEntriesOf(d)) = (IF d \in calls.oracle THEN 1 ELSE 0)
        /\ \A i \in 1..Len(Resp.domains) :
                \E d \in DOMAIN task : Resp.domains[i].domain = DomainName(d)
        /\ Resp.available =
                Cardinality({i \in 1..Len(Resp.domains) : Resp.domains[i].status = "available"})
        /\ Resp.available <= Resp.checked
        /\ Resp.checked <= Len(loaded)

\* Two domains loaded, one found available and one skipped at the deadline.
C28_Witness ==
    /\ Done
    /\ method = "GET"
    /\ Resp.kind = "summary"
    /\ Len(loaded) = 2
    /\ \E d \in DOMAIN task : task[d].st = "skipped"
    /\ Resp.checked = 1
    /\ Resp.available = 1

\* The variables only the handler of a request writes: a step that changes one of
\* them is a step of the pass, and a step of the dashboard changes none.
requestLocals == <<pc, task, calls, results, availableDomains, response, loaded, idx>>

\* C29: a step of the pass neither adds nor removes a row, leaves the name and the
\* active flag of every row as they are, and changes the status and last_checked of
\* no row but the one its update is for; so a toggle or a delete made from the
\* dashboard while the pass is in flight stays as made.
C29_PassWritesOnlyStatusOfItsRow ==
    [][requestLocals' # requestLocals =>
        /\ DOMAIN domains' = DOMAIN domains
        /\ \A d \in DOMAIN domains :
                /\ domains'[d].name = domains[d].name
                /\ domains'[d].active = domains[d].active
                /\ domains'[d] # domains[d] =>
                        /\ d \in DOMAIN task
                        /\ task[d].st = "checking"
                        /\ task'[d].st = "updating"]_vars

\* A row loaded as unknown, written by the pass, and switched off from the dashboard
\* after the pass had loaded it.
C29_Witness ==
    /\ Done
    /\ 1 \in DOMAIN task
    /\ LoadedRow(1).status = "unknown"
    /\ task[1].upd = "ok"
    /\ 1 \in DOMAIN domains
    /\ domains[1].status = "available"
    /\ ~domains[1].active

\* The invocations that called sendAvailabilityNotification for domain d.
AttemptsFor(d) == {r \in Invocations : d \in runs[r].notify}

\* The invocations whose write took the status of d in the store from registered or
\* unknown to available.
EdgeWrites(d) ==
    {r \in Invocations :
        /\ d \in DOMAIN runs[r].task
        /\ runs[r].task[d].upd = "ok"
        /\ runs[r].task[d].before \in {"registered", "unknown"}
        /\ runs[r].task[d].newStatus = "available"}

\* C30: with two invocations of the pass in flight together and every write applied,
\* a domain whose status in the store went from registered or unknown to available
\* once has at most one notification attempt and at most one row in
\* email_notifications.
C30_OncePerEdge ==
    \A d \in DOMAIN domains :
        (/\ Cardinality(EdgeWrites(d)) = 1
         /\ \A r \in AttemptsFor(d) : runs[r].task[d].upd = "ok") =>
            /\ Cardinality(AttemptsFor(d)) <= 1
            /\ Cardinality(RowsOf(d)) <= 1

====
